---- MODULE Spec2Model ----
(***************************************************************************)
(* A model of src/library/apn.c: the connection context, its credential   *)
(* setters, connect / feedback-connect / close, the batch send engine      *)
(* (__apn_send_binary_message) with the retry loop of apn_send, and the    *)
(* feedback reader.                                                        *)
(*                                                                         *)
(* The operating system, the TLS stack and the remote server are the       *)
(* environment: every outcome they can produce for a call (a failed        *)
(* socket(), a rejected certificate, a readable socket, a frame, a         *)
(* transport error) is drawn with \E from a bounded set.                   *)
(***************************************************************************)
EXTENDS Integers, Sequences, FiniteSets, TLC

(***************************************************************************)
(* Bounds                                                                  *)
(***************************************************************************)
\* largest token collection passed to apn_send
MaxTokens == 3
\* engine invocations allowed in one apn_send call
MaxRuns == 2

(***************************************************************************)
(* Program constants                                                       *)
(***************************************************************************)
\* 32-bit unsigned values are held as their two's complement, so that
\* 0xFFFFFFFF is -1 and adding one to it wraps to 0
UINT32_MAX == -1
\* command byte of a valid error frame
APNS_ERROR_CMD == 8
APN_APNS_ERR_PROCESSING_ERROR == 1
APN_APNS_ERR_INVALID_TOKEN_SIZE == 5
APN_APNS_ERR_INVALID_PAYLOAD_SIZE == 7
APN_APNS_ERR_INVALID_TOKEN == 8
APN_APNS_ERR_SERVICE_SHUTDOWN == 10

\* the tokens of a collection of size n are the first n of these
AllTokens == <<"A", "B", "C", "D", "E", "F">>
\* what apn_array_item_at_index yields for an index outside the collection
NULL == "NULL"

\* ctx->ssl == NULL
NoSSL == [present |-> FALSE, fd |-> -1, handshake |-> FALSE]

VARIABLES
    \* ---- apn_ctx_t ----
    sock,                   \* ctx->sock: -1 or a file descriptor
    ssl,                    \* ctx->ssl: NoSSL or a session
    certificate_file,       \* ctx->certificate_file != NULL
    private_key_file,       \* ctx->private_key_file != NULL
    private_key_pass,       \* ctx->private_key_pass != NULL
    pkcs12_file,            \* ctx->pkcs12_file != NULL
    pkcs12_pass,            \* ctx->pkcs12_pass != NULL
    feedback,               \* ctx->feedback
    options,                \* ctx->options, as the set of option bits that are set
    invalid_token_callback, \* ctx->invalid_token_callback != NULL
    \* ---- process ----
    errno,                  \* the thread's errno
    \* ---- the call in progress / the call that returned last ----
    pc,                     \* "idle", a position inside apn_send, or "done"
    ret,                    \* apn_send's ret; the return value of the last call
    tokens,                 \* apn_send: the caller's token collection
    want_invalid,           \* apn_send: invalid_tokens != NULL
    out_invalid,            \* apn_send: the caller's *invalid_tokens
    start_index,            \* apn_send: start_index
    auto_reconnect,         \* apn_send: auto_reconnect
    invalid_token_index,    \* apn_send: invalid_token_index
    apple_error_code,       \* apn_send: apple_error_code
    _invalid_tokens,        \* apn_send: _invalid_tokens (<<>> while NULL)
    i,                      \* __apn_send_binary_message: i
    binary_message,         \* the frame buffer: its identifier and token fields
    fb_tokens,              \* apn_feedback: the caller's *tokens
    \* ---- history of the apn_send call (not program state) ----
    runs,                   \* engine invocations so far
    entry,                  \* the connection as apn_send found it
    ioDone,                 \* the call has waited on, read or written the socket
    lastErr,                \* how the last engine run failed, if it did, and
                            \* the errcode apn_send made of it
    hist,                   \* closes, connects and frames written since the
                            \* last engine run failed
    cbCall,                 \* the invalid-token callback as last invoked
    \* ---- history of the public calls (not program state) ----
    last                    \* the public operation called last, and whether
                            \* it found a socket and a session

ctxVars == <<sock, ssl, certificate_file, private_key_file, private_key_pass,
             pkcs12_file, pkcs12_pass, feedback, options, invalid_token_callback>>
credVars == <<certificate_file, private_key_file, private_key_pass,
              pkcs12_file, pkcs12_pass>>
callVars == <<tokens, want_invalid, entry, last>>
loopVars == <<start_index, auto_reconnect, _invalid_tokens>>
engineVars == <<invalid_token_index, apple_error_code, i, binary_message>>
vars == <<sock, ssl, certificate_file, private_key_file, private_key_pass,
          pkcs12_file, pkcs12_pass, feedback, options, invalid_token_callback,
          errno, pc, ret, tokens, want_invalid, out_invalid,
          start_index, auto_reconnect, invalid_token_index, apple_error_code,
          _invalid_tokens, i, binary_message, fb_tokens, runs, entry,
          ioDone, lastErr, hist, cbCall, last>>

(***************************************************************************)
(* Values                                                                  *)
(***************************************************************************)
APN_SUCCESS == "APN_SUCCESS"
APN_ERROR == "APN_ERROR"
APN_OPTION_RECONNECT == "APN_OPTION_RECONNECT"

\* errno == 0
E_NONE == "0"
\* errno left by a failed system call (socket, connect, select, ...)
E_SYS == "E_SYS"
\* errno after library calls that did not fail: they may have stored any
\* value in it, so the code that reads it then finds one of StaleErrnos
E_UNSPECIFIED == "unspecified"
StaleErrnos == {E_NONE, E_SYS, "APN_ERR_CONNECTION_CLOSED"}

\* a caller's output pointer that no call has written through
Untouched == [set |-> FALSE, items |-> <<>>]

NoMessage == [id |-> -1, token |-> ""]
NoErr == [kind |-> "none", cmd |-> 0, status |-> 0, id |-> 0, errcode |-> ""]
NoCall == [called |-> FALSE, token |-> "", index |-> 0]
NoEntry == [present |-> FALSE, handshake |-> FALSE, feedback |-> FALSE]
\* the record of a call of the public operation op
Called(op) == [op |-> op, sock |-> sock # -1, ssl |-> ssl.present]

\* the descriptor socket() returns
SOCKET == 3

\* what the environment can make of one connection attempt
ConnectOutcomes ==
    {"getaddrinfo_failed", "socket_failed", "connect_failed",
     "ssl_ctx_new_failed", "certificate_rejected", "private_key_rejected",
     "ssl_new_failed", "set_fd_failed", "handshake_failed", "ok"}

\* how SSL_read / SSL_write can fail for good: <<SSL_get_error, errno>>
SslFailures ==
    {<<"SSL_ERROR_SYSCALL", "EPIPE">>, <<"SSL_ERROR_ZERO_RETURN", "">>,
     <<"SSL_ERROR_SSL", "">>}

\* status bytes the server is taken to send
StatusCodes == {APN_APNS_ERR_PROCESSING_ERROR, APN_APNS_ERR_INVALID_TOKEN_SIZE,
                APN_APNS_ERR_INVALID_TOKEN, APN_APNS_ERR_SERVICE_SHUTDOWN}
\* identifiers the server is taken to send: every index of the largest
\* collection (past the end of a smaller one) and the largest 32-bit value
Identifiers == (0 .. MaxTokens - 1) \cup {UINT32_MAX}
\* identifiers sent with a status other than invalid token: the first and the
\* last index of the largest collection
OtherIdentifiers == {0, MaxTokens - 1}
\* the 6 bytes in apple_error_str after a read: one frame that is not an
\* error frame, every invalid-token frame over the identifiers, and the
\* error frames of the other status bytes
Frames ==
    {[cmd |-> 1, status |-> 0, id |-> 0]}
    \cup [cmd : {APNS_ERROR_CMD}, status : {APN_APNS_ERR_INVALID_TOKEN},
          id : Identifiers]
    \cup [cmd : {APNS_ERROR_CMD},
          status : StatusCodes \ {APN_APNS_ERR_INVALID_TOKEN},
          id : OtherIdentifiers]

\* what select() and __ssl_read can make of one apn_feedback call
FeedbackOutcomes == {"select_failed", "timeout", "read_failed", "frame"}

\* binary device tokens the feedback service is taken to report
BinaryTokens == {1, 2}
FeedbackFrames == [timestamp : {0, 1}, length : {32}, token : BinaryTokens]

(***************************************************************************)
(* Pure functions                                                          *)
(***************************************************************************)
\* a < b for two uint32_t
U32Less(a, b) == IF (a < 0) = (b < 0) THEN a < b ELSE b < 0

\* a + 1 in uint32_t
U32Succ(a) == a + 1

\* apn_array_count
apn_array_count(array) == Len(array)

\* apn_array_item_at_index: the item, or NULL outside the collection
apn_array_item_at_index(array, index) ==
    IF U32Less(index, Len(array)) THEN array[index + 1] ELSE NULL

\* apn_token_binary_to_hex
apn_token_binary_to_hex(binary_token) == AllTokens[binary_token]

\* (variant) a read that gives up is reported as a failed write
__ssl_read_errno_write(f) == "APN_ERR_SSL_WRITE_FAILED"

\* the errno __ssl_read leaves when it gives up
__ssl_read_errno(f) ==
    CASE f[1] = "SSL_ERROR_SYSCALL" ->
            (CASE f[2] = "EPIPE" -> "APN_ERR_NETWORK_UNREACHABLE"
               [] f[2] = "ETIMEDOUT" -> "APN_ERR_CONNECTION_TIMEDOUT"
               [] OTHER -> "APN_ERR_SSL_READ_FAILED")
      [] f[1] \in {"SSL_ERROR_ZERO_RETURN", "SSL_ERROR_NONE"} -> "APN_ERR_CONNECTION_CLOSED"
      [] OTHER -> "APN_ERR_SSL_READ_FAILED"

\* the errno __ssl_write leaves when it gives up
__ssl_write_errno(f) ==
    CASE f[1] = "SSL_ERROR_SYSCALL" ->
            (CASE f[2] = "EPIPE" -> "APN_ERR_NETWORK_UNREACHABLE"
               [] f[2] = "ETIMEDOUT" -> "APN_ERR_CONNECTION_TIMEDOUT"
               [] OTHER -> "APN_ERR_SSL_WRITE_FAILED")
      [] f[1] \in {"SSL_ERROR_ZERO_RETURN", "SSL_ERROR_NONE"} -> "APN_ERR_CONNECTION_CLOSED"
      [] OTHER -> "APN_ERR_SSL_WRITE_FAILED"

\* __apn_parse_apns_error: the values of *apns_error_code and *id afterwards,
\* given their values before
__apn_parse_apns_error(frame, code, id) ==
    IF frame.cmd = APNS_ERROR_CMD
    THEN [code |-> frame.status,
          id |-> IF frame.status = APN_APNS_ERR_INVALID_TOKEN THEN frame.id ELSE id]
    ELSE [code |-> code, id |-> id]

\* __apn_convert_apple_error
__apn_convert_apple_error(code) ==
    IF code > 0
    THEN CASE code = APN_APNS_ERR_PROCESSING_ERROR -> "APN_ERR_PROCESSING_ERROR"
           [] code = APN_APNS_ERR_INVALID_PAYLOAD_SIZE -> "APN_ERR_INVALID_PAYLOAD_SIZE"
           [] code = APN_APNS_ERR_SERVICE_SHUTDOWN -> "APN_ERR_SERVICE_SHUTDOWN"
           [] code \in {APN_APNS_ERR_INVALID_TOKEN, APN_APNS_ERR_INVALID_TOKEN_SIZE} ->
                "APN_ERR_TOKEN_INVALID"
           [] OTHER -> "APN_ERR_UNKNOWN"
    ELSE E_NONE

(***************************************************************************)
(* Connection lifecycle                                                    *)
(***************************************************************************)
\* __apn_tls_connect on the socket fd, where the TLS stack behaves as o:
\* ctx->ssl, errno and the return value afterwards
__apn_tls_connect(fd, sl, o) ==
    CASE o = "ssl_ctx_new_failed" ->
            [ssl |-> sl, errno |-> E_UNSPECIFIED, ret |-> APN_ERROR]
      [] o \in {"certificate_rejected", "private_key_rejected"} ->
            [ssl |-> sl,
             errno |-> IF pkcs12_file /\ pkcs12_pass
                       THEN "APN_ERR_UNABLE_TO_USE_SPECIFIED_PKCS12"
                       ELSE IF o = "certificate_rejected"
                            THEN "APN_ERR_UNABLE_TO_USE_SPECIFIED_CERTIFICATE"
                            ELSE "APN_ERR_UNABLE_TO_USE_SPECIFIED_PRIVATE_KEY",
             ret |-> APN_ERROR]
      [] o = "ssl_new_failed" ->
            [ssl |-> NoSSL,
             errno |-> "APN_ERR_COULD_NOT_INITIALIZE_SSL_CONNECTION",
             ret |-> APN_ERROR]
      [] o = "set_fd_failed" ->
            [ssl |-> [present |-> TRUE, fd |-> -1, handshake |-> FALSE],
             errno |-> "APN_ERR_COULD_NOT_INITIALIZE_SSL_CONNECTION",
             ret |-> APN_ERROR]
      [] o = "handshake_failed" ->
            [ssl |-> [present |-> TRUE, fd |-> fd, handshake |-> FALSE],
             errno |-> E_UNSPECIFIED, ret |-> APN_ERROR]
      [] OTHER ->
            [ssl |-> [present |-> TRUE, fd |-> fd, handshake |-> TRUE],
             errno |-> E_UNSPECIFIED, ret |-> APN_SUCCESS]

\* (variant) the private key file is not checked before connecting
__apn_connect_key_unchecked(sk, sl, err, o) ==
    IF ~pkcs12_file /\ ~certificate_file
    THEN [sock |-> sk, ssl |-> sl,
          errno |-> "APN_ERR_CERTIFICATE_IS_NOT_SET", ret |-> APN_ERROR]
    ELSE IF sk # -1
    THEN [sock |-> sk, ssl |-> sl, errno |-> err, ret |-> APN_SUCCESS]
    ELSE IF o = "getaddrinfo_failed"
    THEN [sock |-> sk, ssl |-> sl, errno |-> E_UNSPECIFIED, ret |-> APN_ERROR]
    ELSE IF o \in {"socket_failed", "connect_failed"}
    THEN [sock |-> sk, ssl |-> sl, errno |-> E_SYS, ret |-> APN_ERROR]
    ELSE [sock |-> SOCKET, ssl |-> __apn_tls_connect(SOCKET, sl, o).ssl,
          errno |-> __apn_tls_connect(SOCKET, sl, o).errno,
          ret |-> __apn_tls_connect(SOCKET, sl, o).ret]

\* __apn_connect from the connection state <<sk, sl, err>>, where the
\* environment behaves as o
__apn_connect(sk, sl, err, o) ==
    IF ~pkcs12_file /\ ~certificate_file
    THEN [sock |-> sk, ssl |-> sl,
          errno |-> "APN_ERR_CERTIFICATE_IS_NOT_SET", ret |-> APN_ERROR]
    ELSE IF ~pkcs12_file /\ ~private_key_file
    THEN [sock |-> sk, ssl |-> sl,
          errno |-> "APN_ERR_PRIVATE_KEY_IS_NOT_SET", ret |-> APN_ERROR]
    ELSE IF sk # -1
    THEN [sock |-> sk, ssl |-> sl, errno |-> err, ret |-> APN_SUCCESS]
    ELSE IF o = "getaddrinfo_failed"
    THEN [sock |-> sk, ssl |-> sl, errno |-> E_UNSPECIFIED, ret |-> APN_ERROR]
    ELSE IF o \in {"socket_failed", "connect_failed"}
    THEN [sock |-> sk, ssl |-> sl, errno |-> E_SYS, ret |-> APN_ERROR]
    ELSE LET tls == __apn_tls_connect(SOCKET, sl, o)
         IN  [sock |-> SOCKET, ssl |-> tls.ssl, errno |-> tls.errno, ret |-> tls.ret]

\* (variant) apn_close shuts down and resets whether or not a session exists
close_connection_unguarded(sk, sl, err) ==
    [sock |-> -1, ssl |-> NoSSL, errno |-> E_UNSPECIFIED]

\* apn_close on the connection state <<sk, sl, err>>
close_connection(sk, sl, err) ==
    IF sl.present
    THEN [sock |-> -1, ssl |-> NoSSL, errno |-> E_UNSPECIFIED]
    ELSE [sock |-> sk, ssl |-> sl, errno |-> err]

\* no apn_send or apn_feedback call is in progress
Idle == pc \in {"idle", "done"}

\* the locals and the history of apn_send outside a call
ForgetSend ==
    /\ tokens' = <<>>
    /\ want_invalid' = FALSE
    /\ out_invalid' = Untouched
    /\ start_index' = 0
    /\ auto_reconnect' = 0
    /\ invalid_token_index' = 0
    /\ apple_error_code' = 0
    /\ _invalid_tokens' = <<>>
    /\ i' = 0
    /\ binary_message' = NoMessage
    /\ runs' = 0
    /\ entry' = NoEntry
    /\ ioDone' = FALSE
    /\ lastErr' = NoErr
    /\ hist' = <<>>
    /\ cbCall' = NoCall

Init ==
    /\ sock = -1
    /\ ssl = NoSSL
    /\ certificate_file = FALSE
    /\ private_key_file = FALSE
    /\ private_key_pass = FALSE
    /\ pkcs12_file = FALSE
    /\ pkcs12_pass = FALSE
    /\ feedback = FALSE
    \* apn_init leaves ctx->options as malloc returned it
    /\ options \in SUBSET {APN_OPTION_RECONNECT}
    /\ invalid_token_callback = FALSE
    /\ errno = E_NONE
    /\ pc = "idle"
    /\ ret = APN_SUCCESS
    /\ tokens = <<>>
    /\ want_invalid = FALSE
    /\ out_invalid = Untouched
    /\ start_index = 0
    /\ auto_reconnect = 0
    /\ invalid_token_index = 0
    /\ apple_error_code = 0
    /\ _invalid_tokens = <<>>
    /\ i = 0
    /\ binary_message = NoMessage
    /\ fb_tokens = Untouched
    /\ runs = 0
    /\ entry = NoEntry
    /\ ioDone = FALSE
    /\ lastErr = NoErr
    /\ hist = <<>>
    /\ cbCall = NoCall
    /\ last = [op |-> "apn_init", sock |-> FALSE, ssl |-> FALSE]

apn_set_certificate ==
    /\ Idle
    /\ last' = Called("apn_set_certificate")
    /\ \E cert \in BOOLEAN, key \in BOOLEAN, pass \in BOOLEAN :
          /\ certificate_file' = cert
          /\ private_key_file' = (cert /\ key)
          /\ private_key_pass' = (cert /\ key /\ pass)
    /\ ret' = APN_SUCCESS
    /\ pc' = "idle"
    /\ ForgetSend
    /\ fb_tokens' = Untouched
    /\ errno' = E_UNSPECIFIED
    /\ UNCHANGED <<sock, ssl, pkcs12_file, pkcs12_pass, feedback, options,
                   invalid_token_callback>>

apn_set_pkcs12_file ==
    /\ Idle
    /\ last' = Called("apn_set_pkcs12_file")
    \* a file name comes with a passphrase: assert(pass && strlen(pass) > 0)
    /\ \E file \in BOOLEAN :
          /\ pkcs12_file' = file
          /\ pkcs12_pass' = file
    /\ ret' = APN_SUCCESS
    /\ pc' = "idle"
    /\ ForgetSend
    /\ fb_tokens' = Untouched
    /\ errno' = E_UNSPECIFIED
    /\ UNCHANGED <<sock, ssl, certificate_file, private_key_file, private_key_pass,
                   feedback, options, invalid_token_callback>>

apn_set_behavior ==
    /\ Idle
    /\ last' = Called("apn_set_behavior")
    /\ \E o \in SUBSET {APN_OPTION_RECONNECT} : options' = o
    /\ pc' = "idle"
    /\ ForgetSend
    /\ fb_tokens' = Untouched
    /\ UNCHANGED <<sock, ssl, credVars, feedback, invalid_token_callback, errno, ret>>

apn_set_invalid_token_callback ==
    /\ Idle
    /\ last' = Called("apn_set_invalid_token_callback")
    /\ \E funct \in BOOLEAN : invalid_token_callback' = funct
    /\ pc' = "idle"
    /\ ForgetSend
    /\ fb_tokens' = Untouched
    /\ UNCHANGED <<sock, ssl, credVars, feedback, options, errno, ret>>

apn_connect ==
    /\ Idle
    /\ last' = Called("apn_connect")
    /\ \E o \in ConnectOutcomes :
          LET r == __apn_connect(sock, ssl, errno, o)
          IN  /\ sock' = r.sock
              /\ ssl' = r.ssl
              /\ errno' = r.errno
              /\ ret' = r.ret
    /\ pc' = "idle"
    /\ ForgetSend
    /\ fb_tokens' = Untouched
    /\ UNCHANGED <<credVars, feedback, options, invalid_token_callback>>

apn_feedback_connect ==
    /\ Idle
    /\ last' = Called("apn_feedback_connect")
    /\ feedback' = TRUE
    /\ \E o \in ConnectOutcomes :
          LET r == __apn_connect(sock, ssl, errno, o)
          IN  /\ sock' = r.sock
              /\ ssl' = r.ssl
              /\ errno' = r.errno
              /\ ret' = r.ret
    /\ pc' = "idle"
    /\ ForgetSend
    /\ fb_tokens' = Untouched
    /\ UNCHANGED <<credVars, options, invalid_token_callback>>

apn_close ==
    /\ Idle
    /\ last' = Called("apn_close")
    /\ LET r == close_connection(sock, ssl, errno)
       IN  /\ sock' = r.sock
           /\ ssl' = r.ssl
           /\ errno' = r.errno
    /\ pc' = "idle"
    /\ ForgetSend
    /\ fb_tokens' = Untouched
    /\ UNCHANGED <<credVars, feedback, options, invalid_token_callback, ret>>

(***************************************************************************)
(* apn_send: the retry loop                                                *)
(***************************************************************************)
\* the code after the loop of apn_send: free the frame buffer, hand over the
\* invalid tokens, return; the locals of the loop body are gone
Return(r, e, inv) ==
    /\ pc' = "done"
    /\ binary_message' = NoMessage
    /\ invalid_token_index' = 0
    /\ apple_error_code' = 0
    /\ i' = 0
    /\ ret' = r
    /\ errno' = e
    /\ out_invalid' = IF want_invalid /\ inv # <<>>
                      THEN [set |-> TRUE, items |-> inv]
                      ELSE out_invalid

\* apn_send up to the loop: __APN_CHECK_CONNECTION and the frame buffer
apn_send ==
    /\ Idle
    /\ last' = Called("apn_send")
    /\ \E n \in 1 .. MaxTokens, want \in BOOLEAN, message_created \in BOOLEAN :
          /\ tokens' = SubSeq(AllTokens, 1, n)
          /\ want_invalid' = want
          /\ IF ~ssl.present \/ feedback
             THEN /\ errno' = "APN_ERR_NOT_CONNECTED"
                  /\ ret' = APN_ERROR
                  /\ pc' = "done"
             ELSE IF ~message_created
             THEN /\ errno' = E_SYS
                  /\ ret' = APN_ERROR
                  /\ pc' = "done"
             ELSE /\ errno' = E_UNSPECIFIED
                  /\ ret' = APN_SUCCESS
                  /\ pc' = "invoke"
    /\ out_invalid' = Untouched
    /\ start_index' = 0
    /\ auto_reconnect' = 0
    /\ invalid_token_index' = 0
    /\ apple_error_code' = 0
    /\ _invalid_tokens' = <<>>
    /\ i' = 0
    /\ binary_message' = NoMessage
    /\ fb_tokens' = Untouched
    /\ runs' = 0
    /\ entry' = [present |-> ssl.present, handshake |-> ssl.handshake,
                 feedback |-> feedback]
    /\ ioDone' = FALSE
    /\ lastErr' = NoErr
    /\ hist' = <<>>
    /\ cbCall' = NoCall
    /\ UNCHANGED ctxVars

\* the top of the loop when auto_reconnect is set: apn_close, apn_connect
apn_send_reconnect ==
    /\ pc = "reconnect"
    /\ \E o \in ConnectOutcomes :
          LET c == close_connection(sock, ssl, errno)
              r == __apn_connect(c.sock, c.ssl, c.errno, o)
          IN  /\ sock' = r.sock
              /\ ssl' = r.ssl
              /\ hist' = hist \o <<[ev |-> "close", id |-> -1, tok |-> ""],
                                   [ev |-> "connect", id |-> -1, tok |-> r.ret]>>
              /\ IF r.ret = APN_ERROR
                 THEN Return(APN_ERROR, r.errno, _invalid_tokens)
                 ELSE /\ pc' = "invoke"
                      /\ ret' = r.ret
                      /\ errno' = r.errno
                      /\ out_invalid' = out_invalid
                      /\ UNCHANGED engineVars
    /\ UNCHANGED <<credVars, feedback, options, invalid_token_callback, callVars,
                   loopVars, fb_tokens, runs, ioDone, lastErr, cbCall>>

\* the call of __apn_send_binary_message, up to its token loop
apn_send_invoke ==
    /\ pc = "invoke"
    /\ runs < MaxRuns
    /\ invalid_token_index' = 0
    /\ apple_error_code' = 0
    /\ runs' = runs + 1
    /\ i' = start_index
    /\ cbCall' = NoCall
    /\ lastErr' = NoErr
    \* assert(token_start_index < apn_array_count(tokens))
    /\ pc' = IF U32Less(start_index, apn_array_count(tokens)) THEN "token" ELSE "aborted"
    /\ UNCHANGED <<ctxVars, errno, ret, callVars, out_invalid, loopVars,
                   binary_message, fb_tokens, ioDone, hist>>

(***************************************************************************)
(* __apn_send_binary_message: the engine.  pc = "token" is the wait for    *)
(* token i inside the token loop, pc = "final" the wait after the loop.    *)
(***************************************************************************)
\* (variant) the token field is stamped once per engine run, not per token
Stamped_once ==
    IF pc = "token"
    THEN [id |-> i, token |-> apn_array_item_at_index(tokens, start_index)]
    ELSE binary_message

\* (variant) identifiers are numbered from 0 in every engine run
Stamped_renumbered ==
    IF pc = "token"
    THEN [id |-> i - start_index, token |-> apn_array_item_at_index(tokens, i)]
    ELSE binary_message

\* the frame buffer once the loop body has stamped it for token i
Stamped ==
    IF pc = "token"
    THEN [id |-> i, token |-> apn_array_item_at_index(tokens, i)]
    ELSE binary_message

\* the engine returns APN_ERROR
EngineFails(e, code, index, how) ==
    /\ pc' = "returned"
    /\ ret' = APN_ERROR
    /\ errno' = e
    /\ apple_error_code' = code
    /\ invalid_token_index' = index
    /\ lastErr' = how
    /\ hist' = <<>>
    /\ binary_message' = Stamped
    /\ ioDone' = TRUE
    /\ UNCHANGED <<ctxVars, callVars, out_invalid, loopVars, i,
                   fb_tokens, runs, cbCall>>

\* __APN_SELECT_ERROR: select() fails
engine_select_failed ==
    /\ pc \in {"token", "final"}
    /\ EngineFails(E_SYS, apple_error_code, invalid_token_index,
                   [kind |-> "select", cmd |-> 0, status |-> 0, id |-> 0, errcode |-> ""])

\* __API_SOCKET_READ, socket readable, __ssl_read returns a frame; the engine
\* leaves the loop, parses the frame and returns
engine_read_frame ==
    /\ pc \in {"token", "final"}
    /\ \E frame \in Frames :
          LET parsed == __apn_parse_apns_error(frame, apple_error_code,
                                               invalid_token_index)
          IN  EngineFails(E_UNSPECIFIED, parsed.code, parsed.id,
                          [kind |-> "frame", cmd |-> frame.cmd,
                           status |-> frame.status, id |-> frame.id,
                           errcode |-> ""])

\* __API_SOCKET_READ, socket readable, __ssl_read fails
engine_read_failed ==
    /\ pc \in {"token", "final"}
    /\ \E f \in SslFailures :
          EngineFails(__ssl_read_errno(f), apple_error_code, i,
                      [kind |-> "read", cmd |-> 0, status |-> 0, id |-> 0, errcode |-> ""])

\* socket writable and not readable, __ssl_write writes the frame
engine_write ==
    /\ pc = "token"
    /\ binary_message' = Stamped
    /\ hist' = Append(hist, [ev |-> "write", id |-> Stamped.id, tok |-> Stamped.token])
    /\ i' = i + 1
    /\ pc' = IF i + 1 < apn_array_count(tokens) THEN "token" ELSE "final"
    /\ ioDone' = TRUE
    /\ errno' = E_UNSPECIFIED
    /\ UNCHANGED <<ctxVars, ret, callVars, out_invalid, loopVars,
                   invalid_token_index, apple_error_code, fb_tokens, runs,
                   lastErr, cbCall>>

\* (variant) the engine drops the connection when __ssl_write fails
engine_write_failed_closes ==
    /\ pc = "token"
    /\ \E f \in SslFailures :
          /\ pc' = "returned"
          /\ ret' = APN_ERROR
          /\ errno' = __ssl_write_errno(f)
          /\ lastErr' = [kind |-> "write", cmd |-> 0, status |-> 0, id |-> 0,
                         errcode |-> ""]
          /\ hist' = <<>>
          /\ binary_message' = Stamped
          /\ ioDone' = TRUE
          /\ sock' = -1
          /\ ssl' = NoSSL
          /\ UNCHANGED <<credVars, feedback, options, invalid_token_callback,
                         callVars, out_invalid, loopVars, i, invalid_token_index,
                         apple_error_code, fb_tokens, runs, cbCall>>

\* socket writable and not readable, __ssl_write fails
engine_write_failed ==
    /\ pc = "token"
    /\ \E f \in SslFailures :
          EngineFails(__ssl_write_errno(f), apple_error_code, invalid_token_index,
                      [kind |-> "write", cmd |-> 0, status |-> 0, id |-> 0, errcode |-> ""])

\* (variant) a final wait that expires with nothing to read fails the run
engine_final_timeout_fails ==
    /\ pc = "final"
    /\ pc' = "returned"
    /\ ret' = APN_ERROR
    /\ ioDone' = TRUE
    /\ errno' = E_UNSPECIFIED
    /\ UNCHANGED <<ctxVars, callVars, out_invalid, loopVars,
                   engineVars, fb_tokens, runs, lastErr, hist, cbCall>>

\* the wait after the loop expires with nothing to read
engine_final_timeout ==
    /\ pc = "final"
    /\ pc' = "returned"
    /\ ret' = APN_SUCCESS
    /\ ioDone' = TRUE
    /\ errno' = E_UNSPECIFIED
    /\ UNCHANGED <<ctxVars, callVars, out_invalid, loopVars,
                   engineVars, fb_tokens, runs, lastErr, hist, cbCall>>

(***************************************************************************)
(* apn_send: what the loop does with the engine's result                   *)
(***************************************************************************)
\* errcode == APN_ERR_TOKEN_INVALID
IsTokenInvalid(e) == e = "APN_ERR_TOKEN_INVALID"

\* the error kinds the reconnect test names
ReconnectErrors ==
    {"APN_ERR_CONNECTION_CLOSED", "APN_ERR_SERVICE_SHUTDOWN", "APN_ERR_TOKEN_INVALID"}

\* options & APN_OPTION_RECONNECT && (errcode == ... || ... || ...)
ShouldReconnect(opts, e) == APN_OPTION_RECONNECT \in opts /\ e \in ReconnectErrors

\* the values errcode can take: the translated status byte if the engine
\* reported one, else what errno holds
ErrCodes(code, err) ==
    IF code > 0 THEN {__apn_convert_apple_error(code)}
    ELSE IF err = E_UNSPECIFIED THEN StaleErrnos
    ELSE {err}

\* start_index after an error: invalid_token_index + 1 or invalid_token_index
ResumeIndex(e, index) == IF IsTokenInvalid(e) THEN U32Succ(index) ELSE index

\* (variant) the loop resumes at the rejected token instead of after it
ReconnectIndex_same(index) == index

\* start_index when the loop reconnects
ReconnectIndex(index) == U32Succ(index)

\* (variant) the test against the token count is off by one
LoopsAgain_inclusive(start, count) == U32Less(start, count + 1)

\* the loop goes round instead of leaving: only the branch that reconnects
\* has a continue, and only the branches for start_index >= count a break
LoopsAgain(start, count) == U32Less(start, count)

apn_send_result ==
    /\ pc = "returned"
    /\ IF ret = APN_SUCCESS
       THEN /\ Return(ret, errno, _invalid_tokens)
            /\ UNCHANGED <<loopVars, cbCall, lastErr>>
       ELSE \E errcode \in ErrCodes(apple_error_code, errno) :
            LET invalid_token == apn_array_item_at_index(tokens, invalid_token_index)
                inv == IF IsTokenInvalid(errcode) /\ want_invalid
                       THEN Append(_invalid_tokens, invalid_token)
                       ELSE _invalid_tokens
                start == ResumeIndex(errcode, invalid_token_index)
            IN  /\ lastErr' = [lastErr EXCEPT !.errcode = errcode]
                /\ _invalid_tokens' = inv
                /\ cbCall' = IF IsTokenInvalid(errcode) /\ want_invalid
                                /\ invalid_token_callback
                             THEN [called |-> TRUE, token |-> invalid_token,
                                   index |-> invalid_token_index]
                             ELSE NoCall
                /\ IF LoopsAgain(start, apn_array_count(tokens))
                   THEN IF ShouldReconnect(options, errcode)
                        THEN /\ start_index' = ReconnectIndex(invalid_token_index)
                             /\ auto_reconnect' = 1
                             /\ pc' = "reconnect"
                             /\ UNCHANGED <<ret, errno, out_invalid, engineVars>>
                        ELSE /\ start_index' = start
                             /\ auto_reconnect' = auto_reconnect
                             /\ pc' = IF auto_reconnect = 1 THEN "reconnect" ELSE "invoke"
                             /\ UNCHANGED <<ret, errno, out_invalid, engineVars>>
                   ELSE /\ start_index' = start
                        /\ auto_reconnect' = auto_reconnect
                        /\ IF IsTokenInvalid(errcode)
                           THEN Return(APN_SUCCESS, E_NONE, inv)
                           ELSE Return(APN_ERROR, errcode, inv)
    /\ UNCHANGED <<ctxVars, callVars, fb_tokens, runs, ioDone, hist>>

(***************************************************************************)
(* apn_feedback                                                            *)
(***************************************************************************)
\* (variant) the loop goes round after a frame and reads a second one
apn_feedback_drains(o) ==
    /\ Idle
    /\ last' = Called("apn_feedback")
    /\ IF ~ssl.present \/ feedback
       THEN /\ errno' = "APN_ERR_NOT_CONNECTED"
            /\ ret' = APN_ERROR
            /\ fb_tokens' = Untouched
       ELSE CASE o = "select_failed" ->
                   /\ errno' = E_SYS
                   /\ ret' = APN_ERROR
                   /\ fb_tokens' = [set |-> TRUE, items |-> <<>>]
              [] o = "timeout" ->
                   /\ errno' = E_UNSPECIFIED
                   /\ ret' = APN_SUCCESS
                   /\ fb_tokens' = [set |-> TRUE, items |-> <<>>]
              [] o = "read_failed" ->
                   \E f \in SslFailures :
                      /\ errno' = __ssl_read_errno(f)
                      /\ ret' = APN_ERROR
                      /\ fb_tokens' = [set |-> TRUE, items |-> <<>>]
              [] OTHER ->
                   \E frame \in FeedbackFrames, more \in FeedbackFrames :
                      /\ errno' = E_UNSPECIFIED
                      /\ ret' = APN_SUCCESS
                      /\ fb_tokens' = [set |-> TRUE,
                                       items |-> <<apn_token_binary_to_hex(frame.token),
                                                   apn_token_binary_to_hex(more.token)>>]
    /\ pc' = "idle"
    /\ ForgetSend
    /\ UNCHANGED ctxVars

\* apn_feedback when select() and __ssl_read behave as o
apn_feedback(o) ==
    /\ Idle
    /\ last' = Called("apn_feedback")
    /\ IF ~ssl.present \/ feedback
       THEN /\ errno' = "APN_ERR_NOT_CONNECTED"
            /\ ret' = APN_ERROR
            /\ fb_tokens' = Untouched
       ELSE CASE o = "select_failed" ->
                   /\ errno' = E_SYS
                   /\ ret' = APN_ERROR
                   /\ fb_tokens' = [set |-> TRUE, items |-> <<>>]
              [] o = "timeout" ->
                   /\ errno' = E_UNSPECIFIED
                   /\ ret' = APN_SUCCESS
                   /\ fb_tokens' = [set |-> TRUE, items |-> <<>>]
              [] o = "read_failed" ->
                   \E f \in SslFailures :
                      /\ errno' = __ssl_read_errno(f)
                      /\ ret' = APN_ERROR
                      /\ fb_tokens' = [set |-> TRUE, items |-> <<>>]
              [] OTHER ->
                   \E frame \in FeedbackFrames :
                      /\ errno' = E_UNSPECIFIED
                      /\ ret' = APN_SUCCESS
                      /\ fb_tokens' = [set |-> TRUE,
                                       items |-> <<apn_token_binary_to_hex(frame.token)>>]
    /\ pc' = "idle"
    /\ ForgetSend
    /\ UNCHANGED ctxVars

Next ==
    \/ apn_set_certificate
    \/ apn_set_pkcs12_file
    \/ apn_set_behavior
    \/ apn_set_invalid_token_callback
    \/ apn_connect
    \/ apn_feedback_connect
    \/ apn_close
    \/ apn_send
    \/ apn_send_reconnect
    \/ apn_send_invoke
    \/ engine_select_failed
    \/ engine_read_frame
    \/ engine_read_failed
    \/ engine_write
    \/ engine_write_failed
    \/ engine_final_timeout
    \/ apn_send_result
    \/ \E o \in FeedbackOutcomes : apn_feedback(o)

Spec == Init /\ [][Next]_vars

(***************************************************************************)
(* The retry loop without the bound on engine runs: once MaxRuns runs have *)
(* been counted, a loop that has not reconnected still goes round on the   *)
(* same connection, for as long as the collection of invalid tokens is no  *)
(* longer than the token collection.  A call in progress always takes its  *)
(* next step.                                                              *)
(***************************************************************************)
\* the call of __apn_send_binary_message in the iterations after MaxRuns
apn_send_invoke_again ==
    /\ pc = "invoke"
    /\ runs = MaxRuns
    /\ auto_reconnect = 0
    /\ Len(_invalid_tokens) <= Len(tokens)
    /\ invalid_token_index' = 0
    /\ apple_error_code' = 0
    /\ i' = start_index
    /\ cbCall' = NoCall
    /\ lastErr' = NoErr
    /\ pc' = IF U32Less(start_index, apn_array_count(tokens)) THEN "token" ELSE "aborted"
    /\ UNCHANGED <<ctxVars, errno, ret, callVars, out_invalid, loopVars,
                   binary_message, fb_tokens, ioDone, hist, runs>>

\* a step of the apn_send call in progress
SendStep ==
    \/ apn_send_reconnect
    \/ apn_send_invoke
    \/ apn_send_invoke_again
    \/ engine_select_failed
    \/ engine_read_frame
    \/ engine_read_failed
    \/ engine_write
    \/ engine_write_failed
    \/ engine_final_timeout
    \/ apn_send_result

NextLive == Next \/ apn_send_invoke_again

SpecLive == Init /\ [][NextLive]_vars /\ WF_vars(SendStep)

(***************************************************************************)
(* Properties                                                              *)
(***************************************************************************)
\* the history entry of the frame written for token index k
WriteEv(k) == [ev |-> "write", id |-> k, tok |-> tokens[k + 1]]
\* the history of writing the frames of token indices a .. b-1 in order
Writes(a, b) == [j \in 1 .. (b - a) |-> WriteEv(a + j - 1)]
CloseEv == [ev |-> "close", id |-> -1, tok |-> ""]
ConnectEv(r) == [ev |-> "connect", id |-> -1, tok |-> r]

\* apn_send found an open TLS session on a context not in feedback mode
EntryConnected == entry.present /\ entry.handshake /\ ~entry.feedback
\* the last engine run ended by reading the error frame {8, status, k}
ErrorFrame(status, k) ==
    /\ lastErr.kind = "frame"
    /\ lastErr.cmd = 8
    /\ lastErr.status = status
    /\ lastErr.id = k
\* apn_send has dealt with the failure of the last engine run
Handled == lastErr.kind # "none" /\ pc # "returned"
ReconnectOn == APN_OPTION_RECONNECT \in options

\* C1: a send call on a connected, non-feedback context during which the
\* engine ran once and met neither incoming data nor a transport error has
\* written exactly one frame per token, in index order 0..N-1, and returns
\* success.
C1_CleanSendWritesAllInOrder ==
    (pc = "done" /\ EntryConnected /\ runs = 1 /\ lastErr.kind = "none")
        => (ret = APN_SUCCESS /\ hist = Writes(0, Len(tokens)))

C1_Witness ==
    /\ pc = "done"
    /\ EntryConnected
    /\ runs = 1
    /\ lastErr.kind = "none"
    /\ Len(tokens) = 3
    /\ hist = <<WriteEv(0), WriteEv(1), WriteEv(2)>>

\* C2 (a step of apn_send): with auto-reconnect on, an invalid-token frame
\* for index k with k+1 < N makes apn_send record token k and nothing else
\* (when the caller asked for the collection), and go on to reconnect with
\* the resume index k+1.
C2_Step ==
    (pc = "returned" /\ ReconnectOn
        /\ \E k \in 0 .. Len(tokens) - 2 : ErrorFrame(8, k))
    => /\ pc' = "reconnect"
       /\ start_index' = lastErr.id + 1
       /\ _invalid_tokens' = IF want_invalid
                             THEN Append(_invalid_tokens, tokens[lastErr.id + 1])
                             ELSE _invalid_tokens

\* C2 (after the reconnect): the engine runs only after the connection was
\* closed and opened again, and the frames it has written since are those of
\* the indices from the resume index on, in order.
C2_AfterReconnect ==
    /\ (pc = "invoke" /\ auto_reconnect = 1)
          => (hist = <<CloseEv, ConnectEv(APN_SUCCESS)>> /\ ssl.handshake)
    /\ (pc \in {"token", "final"} /\ auto_reconnect = 1)
          => hist = <<CloseEv, ConnectEv(APN_SUCCESS)>> \o Writes(start_index, i)

\* C2: with auto-reconnect on, when the server reports invalid token k with
\* k+1 < N, token k (and no token before it) is added to the invalid-token
\* collection, the connection is closed and reopened, and the next frame
\* written is the one for index k+1.
C2_InvalidTokenReconnectResumesAfter == [][C2_Step]_vars /\ []C2_AfterReconnect

\* batch [A,B,C], error for index 1, reconnect: only C is sent afterwards,
\* the result is success and the invalid collection is [B]
C2_Witness ==
    /\ pc = "done"
    /\ EntryConnected
    /\ ReconnectOn
    /\ ret = APN_SUCCESS
    /\ tokens = <<"A", "B", "C">>
    /\ runs = 2
    /\ lastErr.kind = "none"
    /\ out_invalid = [set |-> TRUE, items |-> <<"B">>]
    /\ hist = <<CloseEv, ConnectEv(APN_SUCCESS), WriteEv(2)>>

\* C3 (as claimed): with auto-reconnect off, after an invalid-token frame for
\* index k with k+1 < N the call is over: it returned failure with
\* APN_ERR_TOKEN_INVALID, the collection holds exactly token k, and nothing
\* was written after the frame was read.
C3_AsClaimed ==
    \A k \in 0 .. Len(tokens) - 2 :
        (EntryConnected /\ Handled /\ ~ReconnectOn /\ ErrorFrame(8, k))
            => /\ pc = "done"
               /\ ret = APN_ERROR
               /\ errno = "APN_ERR_TOKEN_INVALID"
               /\ hist = <<>>
               /\ want_invalid =>
                     out_invalid = [set |-> TRUE, items |-> <<tokens[k + 1]>>]

\* C4 (as claimed): with auto-reconnect off, after an error frame whose
\* status is not a token error the call is over: it returned failure with
\* the kind of that status, and nothing was written after the frame was read.
C4_AsClaimed ==
    \A status \in {APN_APNS_ERR_PROCESSING_ERROR, APN_APNS_ERR_SERVICE_SHUTDOWN},
       k \in OtherIdentifiers :
        (EntryConnected /\ Handled /\ ~ReconnectOn /\ ErrorFrame(status, k))
            => /\ pc = "done"
               /\ ret = APN_ERROR
               /\ errno = __apn_convert_apple_error(status)
               /\ hist = <<>>

\* C5 (a step of apn_send): an invalid-token frame for the last index N-1
\* makes apn_send record that one token (when the caller asked for the
\* collection) and return.
C5_Step ==
    (pc = "returned" /\ ErrorFrame(8, Len(tokens) - 1))
    => /\ pc' = "done"
       /\ _invalid_tokens' = IF want_invalid
                             THEN Append(_invalid_tokens, tokens[Len(tokens)])
                             ELSE _invalid_tokens
       /\ UNCHANGED <<sock, ssl>>

\* C5 (on return): the call returned success, handed over the collection
\* ending with the last token (alone, if this was the only error), and did
\* not close, connect or write after the frame.
C5_Returned ==
    (Handled /\ ErrorFrame(8, Len(tokens) - 1))
    => /\ pc = "done"
       /\ ret = APN_SUCCESS
       /\ errno = E_NONE
       /\ hist = <<>>
       /\ ssl.present
       /\ want_invalid =>
             /\ out_invalid = [set |-> TRUE, items |-> _invalid_tokens]
             /\ _invalid_tokens[Len(_invalid_tokens)] = tokens[Len(tokens)]
             /\ runs = 1 => _invalid_tokens = <<tokens[Len(tokens)]>>
       /\ ~want_invalid => out_invalid = Untouched

\* C5: when the server reports invalid token for the last token of the batch,
\* send returns success with exactly that one token recorded as invalid and
\* without reconnecting, whether or not auto-reconnect is enabled.
C5_InvalidLastTokenIsSuccess == [][C5_Step]_vars /\ []C5_Returned

C5_Witness ==
    /\ pc = "done"
    /\ EntryConnected
    /\ ReconnectOn
    /\ ErrorFrame(8, Len(tokens) - 1)
    /\ Len(tokens) >= 2
    /\ ret = APN_SUCCESS
    /\ out_invalid = [set |-> TRUE, items |-> <<tokens[Len(tokens)]>>]

\* C6 (as claimed): apn_send goes on to close and reconnect only if
\* auto-reconnect is on and the error just handled is one of connection
\* closed, service shutdown, invalid token; after any other error the call is
\* over with that error and no further close, connect or write.
C6_AsClaimed ==
    (EntryConnected /\ Handled) =>
       /\ pc = "reconnect" =>
             /\ ReconnectOn
             /\ lastErr.errcode \in {"APN_ERR_CONNECTION_CLOSED",
                                     "APN_ERR_SERVICE_SHUTDOWN",
                                     "APN_ERR_TOKEN_INVALID"}
       /\ lastErr.errcode \notin {"APN_ERR_CONNECTION_CLOSED",
                                  "APN_ERR_SERVICE_SHUTDOWN",
                                  "APN_ERR_TOKEN_INVALID"} =>
             /\ pc = "done"
             /\ ret = APN_ERROR
             /\ errno = lastErr.errcode
             /\ hist = <<>>

\* C7 (as claimed): when the caller asks for the collection, each error frame
\* with status invalid token adds exactly the token at the index the frame
\* names, no other error adds to the collection, and on return the caller's
\* output is the collection, or untouched if it is empty.
C7_AsClaimed ==
    [][(EntryConnected /\ pc = "returned" /\ ret = APN_ERROR /\ want_invalid)
        => LET tokenError ==
                   /\ lastErr.kind = "frame"
                   /\ lastErr.cmd = 8
                   /\ lastErr.status = APN_APNS_ERR_INVALID_TOKEN
           IN  /\ (tokenError /\ lastErr.id \in 0 .. Len(tokens) - 1)
                     => _invalid_tokens' =
                           Append(_invalid_tokens, tokens[lastErr.id + 1])
               /\ ~tokenError => _invalid_tokens' = _invalid_tokens
               /\ pc' = "done"
                     => out_invalid' = IF _invalid_tokens' = <<>>
                                       THEN Untouched
                                       ELSE [set |-> TRUE, items |-> _invalid_tokens']
      ]_vars

\* C8 (as claimed): on a context opened by feedback-connect (feedback mode,
\* open TLS session) a feedback read whose wait expires returns success with
\* an empty collection.
C8_AsClaimed ==
    [][(feedback /\ ssl.present /\ ssl.handshake /\ apn_feedback("timeout"))
        => (ret' = APN_SUCCESS /\ fb_tokens' = [set |-> TRUE, items |-> <<>>])
      ]_vars

\* C9 (as claimed): a send call touches the socket only if it found an open,
\* handshake-completed TLS session on a context not in feedback mode;
\* otherwise it returned APN_ERR_NOT_CONNECTED without any socket I/O.
C9_AsClaimed ==
    /\ ioDone => EntryConnected
    /\ (pc = "done" /\ ~EntryConnected)
          => (ret = APN_ERROR /\ errno = "APN_ERR_NOT_CONNECTED" /\ ~ioDone)

\* C10 (as claimed): the context's socket and TLS session are either both
\* present or both absent.
C10_AsClaimed == (sock = -1) <=> ~ssl.present

\* C11 (as claimed): after apn_close has returned, the context has neither a
\* socket nor a TLS session, whatever state it was called in.
C11_AsClaimed == last.op = "apn_close" => (sock = -1 /\ ~ssl.present)

\* C12 (a step of apn_close): on a context without a TLS session apn_close
\* changes no field of the context, leaves errno and the last return value
\* alone (it calls nothing that could fail), and returns.
C12_Step ==
    (apn_close /\ ~ssl.present)
    => (UNCHANGED ctxVars /\ errno' = errno /\ ret' = ret /\ pc' = "idle")

\* C12 (twice): in every reachable state, closing the closed connection again
\* gives the state the first close gave.
C12_Twice ==
    LET once == close_connection(sock, ssl, errno)
    IN  close_connection(once.sock, once.ssl, once.errno) = once

\* C12: close is idempotent: on a context with no open connection it changes
\* nothing, attempts no shutdown and does not fail, and close followed by
\* close leaves the same state as a single close.
C12_CloseIsIdempotent == [][C12_Step]_vars /\ []C12_Twice

\* apn_close has run on a configured context that had no TLS session
C12_Witness ==
    /\ last.op = "apn_close"
    /\ ~last.ssl
    /\ certificate_file
    /\ private_key_file
    /\ ~ssl.present

\* C13 (as claimed): apn_connect on a context that has a socket returns
\* success and leaves socket and session as they are; an apn_connect that
\* follows apn_close and succeeds has created a socket and a session.
C13_AsClaimed ==
    [][/\ (apn_connect /\ sock # -1)
            => (ret' = APN_SUCCESS /\ sock' = sock /\ ssl' = ssl)
       /\ (apn_connect /\ last.op = "apn_close" /\ ret' = APN_SUCCESS)
            => (sock = -1 /\ sock' # -1 /\ ssl'.handshake)
      ]_vars

\* C14 (as claimed): no reachable state has both a PEM certificate
\* configuration and a PKCS12 configuration.
C14_AsClaimed ==
    ~ /\ (certificate_file \/ private_key_file \/ private_key_pass)
      /\ (pkcs12_file \/ pkcs12_pass)

\* C15 (a step of connect): without a PKCS12 file, apn_connect (and
\* apn_feedback_connect) fails with APN_ERR_CERTIFICATE_IS_NOT_SET when no
\* certificate is set and with APN_ERR_PRIVATE_KEY_IS_NOT_SET when a
\* certificate but no private key is set, and leaves socket and session as
\* they were.
C15_Step ==
    ((apn_connect \/ apn_feedback_connect) /\ ~pkcs12_file)
    => /\ ~certificate_file
            => /\ ret' = APN_ERROR
               /\ errno' = "APN_ERR_CERTIFICATE_IS_NOT_SET"
               /\ UNCHANGED <<sock, ssl>>
       /\ (certificate_file /\ ~private_key_file)
            => /\ ret' = APN_ERROR
               /\ errno' = "APN_ERR_PRIVATE_KEY_IS_NOT_SET"
               /\ UNCHANGED <<sock, ssl>>

\* C15: missing credentials are a connect-time error: 'certificate is not
\* set' with neither a PKCS12 file nor a certificate, 'private key is not set'
\* with a certificate but no private key; no socket is opened and the context
\* stays disconnected.
C15_MissingCredentialsFailConnect == [][C15_Step]_vars

\* apn_connect has failed on a disconnected context for the missing key
C15_Witness ==
    /\ last.op = "apn_connect"
    /\ ~last.sock
    /\ certificate_file
    /\ ~private_key_file
    /\ ~pkcs12_file
    /\ ret = APN_ERROR
    /\ errno = "APN_ERR_PRIVATE_KEY_IS_NOT_SET"
    /\ sock = -1
    /\ ~ssl.present

\* the status-to-kind table of the error translator as claimed; kinds the
\* code has no name for are written MISSING_* and INVALID_*_SIZE
C16_ClaimedKind(code) ==
    CASE code = 1 -> "APN_ERR_PROCESSING_ERROR"
      [] code = 2 -> "MISSING_TOKEN"
      [] code = 3 -> "MISSING_TOPIC"
      [] code = 4 -> "MISSING_PAYLOAD"
      [] code = 5 -> "INVALID_TOKEN_SIZE"
      [] code = 6 -> "INVALID_TOPIC_SIZE"
      [] code = 7 -> "APN_ERR_INVALID_PAYLOAD_SIZE"
      [] code = 8 -> "APN_ERR_TOKEN_INVALID"
      [] code = 10 -> "APN_ERR_SERVICE_SHUTDOWN"
      [] OTHER -> "APN_ERR_UNKNOWN"

\* C16 (as claimed): the error kind apn_send makes of an error frame is the
\* claimed kind of its status byte, and of a failure without status byte the
\* transport error in errno.
C16_AsClaimed ==
    /\ (Handled /\ lastErr.kind = "frame" /\ lastErr.cmd = APNS_ERROR_CMD)
          => lastErr.errcode = C16_ClaimedKind(lastErr.status)
    /\ (Handled /\ lastErr.kind \in {"read", "write"})
          => lastErr.errcode \in {__ssl_read_errno(f) : f \in SslFailures}
                                  \cup {__ssl_write_errno(f) : f \in SslFailures}

\* the retry loop has stopped at the bound on the collection of invalid tokens
C17_Capped == pc = "invoke" /\ runs = MaxRuns /\ Len(_invalid_tokens) > Len(tokens)

\* C17 (as claimed): provided no readiness wait fails, every apn_send call
\* that enters the retry loop with auto-reconnect off returns.
C17_AsClaimed ==
    ([](lastErr.kind # "select"))
        => ((pc = "invoke" /\ ~ReconnectOn) ~> (pc = "done" \/ C17_Capped))

\* C18 (a step of the engine): when the socket is readable at the wait for
\* token i, the engine reads instead of writing: the run ends in failure at
\* once with i where it was and no frame written for token i; a failing read
\* leaves the read's transport error in errno and reports index i.
C18_Step ==
    (pc = "token" /\ (engine_read_frame \/ engine_read_failed))
    => /\ pc' = "returned"
       /\ ret' = APN_ERROR
       /\ i' = i
       /\ \A n \in 1 .. Len(hist') : hist'[n].ev # "write"
       /\ engine_read_failed
             => /\ errno' \in {"APN_ERR_NETWORK_UNREACHABLE",
                               "APN_ERR_CONNECTION_TIMEDOUT",
                               "APN_ERR_CONNECTION_CLOSED",
                               "APN_ERR_SSL_READ_FAILED"}
                /\ invalid_token_index' = i

\* C18 (after the read): an engine run that has ended writes nothing; only a
\* new invocation by apn_send writes again.
C18_NoWriteAfter ==
    (pc \in {"returned", "done", "aborted"} /\ lastErr.kind \in {"frame", "read"})
    => \A n \in 1 .. Len(hist) : hist[n].ev # "write"

\* C18: if the socket is readable when the wait for token i returns, the
\* engine reads the incoming frame instead of writing token i, leaves the
\* token loop immediately and writes no frame for token i or any later token
\* in that run; if the read fails, the run fails with the read's transport
\* error.
C18_ReadableSocketEndsRun == [][C18_Step]_vars /\ []C18_NoWriteAfter

\* with A written, the read at the wait for B has failed: the run is over
\* with the frame stamped for B unwritten
C18_Witness ==
    /\ pc = "returned"
    /\ EntryConnected
    /\ runs = 1
    /\ lastErr.kind = "read"
    /\ tokens = <<"A", "B", "C">>
    /\ i = 1
    /\ binary_message = [id |-> 1, token |-> "B"]
    /\ invalid_token_index = 1
    /\ errno = "APN_ERR_CONNECTION_CLOSED"
    /\ hist = <<>>

\* C19 (as claimed): after a failed write to which the auto-reconnect policy
\* does not apply the call is over: it returned failure with the write's
\* error and nothing was written after the failed write.
C19_AsClaimed ==
    (EntryConnected /\ Handled /\ lastErr.kind = "write"
        /\ ~ShouldReconnect(options, lastErr.errcode))
    => /\ pc = "done"
       /\ ret = APN_ERROR
       /\ errno = lastErr.errcode
       /\ hist = <<>>

\* the token index an error of the last engine run is correlated to: the
\* identifier of the frame, or the token the engine was at when the
\* transport failed
C20_Correlated == IF lastErr.kind = "frame" THEN lastErr.id ELSE i

\* C20 (as claimed): with auto-reconnect on, when apn_send goes to reconnect
\* after a connection-closed or service-shutdown error correlated to token
\* k, the resume index is k.
C20_AsClaimed ==
    (EntryConnected /\ Handled /\ ReconnectOn /\ pc = "reconnect"
        /\ \/ lastErr.kind \in {"read", "write"}
           \/ lastErr.kind = "frame" /\ lastErr.cmd = APNS_ERROR_CMD
        /\ lastErr.errcode \in {"APN_ERR_CONNECTION_CLOSED",
                                "APN_ERR_SERVICE_SHUTDOWN"})
    => start_index = C20_Correlated

\* C21 (as claimed): a frame whose command byte is not 8 is ignored: having
\* read it, the engine run has not failed and reports no server error.
C21_AsClaimed ==
    (pc = "returned" /\ lastErr.kind = "frame" /\ lastErr.cmd # APNS_ERROR_CMD)
    => (ret = APN_SUCCESS /\ apple_error_code = 0)

\* C22 (as claimed): after an error frame with command byte 8, whatever its
\* status byte, the index the engine reports to apn_send is the identifier of
\* the frame.
C22_AsClaimed ==
    (pc = "returned" /\ lastErr.kind = "frame" /\ lastErr.cmd = APNS_ERROR_CMD)
    => invalid_token_index = lastErr.id

\* C23 (the final wait): the engine is at its final wait only when every
\* token from the start index on has been written in this run and nothing
\* has been read.
C23_AtFinalWait ==
    pc = "final"
    => /\ i = Len(tokens)
       /\ lastErr.kind = "none"
       /\ Len(hist) >= i - start_index
       /\ SubSeq(hist, Len(hist) - (i - start_index) + 1, Len(hist))
             = Writes(start_index, i)

\* C23 (a step from the final wait): the run ends with this one wait and
\* writes nothing more; if the wait expires the run is a success; if a frame
\* is read the run fails with the status and index that the parse of that
\* frame gives, as for a frame read in the token loop.
C23_Step ==
    /\ pc = "final"
          => /\ pc' = "returned"
             /\ hist' \in {hist, <<>>}
             /\ engine_final_timeout
                   => (ret' = APN_SUCCESS /\ lastErr' = NoErr /\ apple_error_code' = 0)
    /\ (pc \in {"token", "final"} /\ engine_read_frame)
          => /\ pc' = "returned"
             /\ ret' = APN_ERROR
             /\ [code |-> apple_error_code', id |-> invalid_token_index']
                   = __apn_parse_apns_error(
                        [cmd |-> lastErr'.cmd, status |-> lastErr'.status,
                         id |-> lastErr'.id], 0, 0)

\* C23: after the last token is written without an error frame read, the
\* engine performs exactly one further wait, for readability only: if it
\* expires the run is a full success; if a frame arrives it is read and
\* handled exactly like an error frame read during the token loop.
C23_FinalWait == [][C23_Step]_vars /\ []C23_AtFinalWait

\* both tokens were written, then the final wait read an invalid-token frame
\* for index 1
C23_Witness ==
    /\ pc = "returned"
    /\ EntryConnected
    /\ runs = 1
    /\ tokens = <<"A", "B">>
    /\ i = 2
    /\ ErrorFrame(APN_APNS_ERR_INVALID_TOKEN, 1)
    /\ ret = APN_ERROR
    /\ apple_error_code = APN_APNS_ERR_INVALID_TOKEN
    /\ invalid_token_index = 1

\* C24 (a write): the frame the engine writes for token i carries identifier
\* i and the token at index i of the caller's collection, and i is not below
\* the start index of the run.
C24_Step ==
    engine_write
    => /\ hist' = Append(hist, [ev |-> "write", id |-> i, tok |-> tokens[i + 1]])
       /\ binary_message' = [id |-> i, token |-> tokens[i + 1]]
       /\ start_index <= i
       /\ i < Len(tokens)

\* C24 (all frames): every frame written carries an identifier inside the
\* collection and the token at that index.
C24_Frames ==
    \A n \in 1 .. Len(hist) :
        hist[n].ev = "write"
        => /\ hist[n].id \in 0 .. Len(tokens) - 1
           /\ hist[n].tok = tokens[hist[n].id + 1]

\* C24: every frame written during a send call carries identifier i and the
\* token tokens[i] for the same i, the token's absolute index in the caller's
\* collection; identifiers are not renumbered from 0 after a reconnect.
C24_FramesCarryAbsoluteIndex == [][C24_Step]_vars /\ []C24_Frames

\* after a reconnect that resumed at index 1, the frames for B and C were
\* written with identifiers 1 and 2
C24_Witness ==
    /\ pc = "final"
    /\ EntryConnected
    /\ tokens = <<"A", "B", "C">>
    /\ auto_reconnect = 1
    /\ start_index = 1
    /\ binary_message = [id |-> 2, token |-> "C"]
    /\ hist = <<CloseEv, ConnectEv(APN_SUCCESS),
                [ev |-> "write", id |-> 1, tok |-> "B"],
                [ev |-> "write", id |-> 2, tok |-> "C"]>>

\* C25 (a feedback call): the call hands back at most one token; when the
\* wait finds a frame readable it hands back one token, read from that one
\* frame, and when the wait expires it hands back none.
C25_Step ==
    (Idle /\ last'.op = "apn_feedback")
    => \A o \in FeedbackOutcomes :
          apn_feedback(o)
          => /\ Len(fb_tokens'.items) <= 1
             /\ (ssl.present /\ ~feedback /\ o = "frame")
                   => /\ ret' = APN_SUCCESS
                      /\ \E frame \in FeedbackFrames :
                            fb_tokens'.items = <<apn_token_binary_to_hex(frame.token)>>
             /\ o = "timeout" => fb_tokens'.items = <<>>

\* C25: a feedback call performs at most one frame read and returns at most
\* one token: one when a frame was readable, none when the wait expired.
C25_FeedbackReadsOneFrame ==
    [][C25_Step]_vars /\ [](Len(fb_tokens.items) <= 1)

\* a feedback call read one frame and returned its token
C25_Witness ==
    /\ last.op = "apn_feedback"
    /\ last.ssl
    /\ ret = APN_SUCCESS
    /\ fb_tokens.set
    /\ Len(fb_tokens.items) = 1

\* C26 (as claimed): a feedback-connect that fails leaves a context that
\* was not in feedback mode out of feedback mode, and no operation clears
\* the mark once it is set.
C26_AsClaimed ==
    [][/\ (apn_feedback_connect /\ ~feedback /\ ret' = APN_ERROR) => ~feedback'
       /\ feedback => feedback']_vars

\* C27 (as claimed): when connect or feedback-connect has returned success
\* the context holds a socket and a TLS session whose handshake completed.
C27_AsClaimed ==
    (last.op \in {"apn_connect", "apn_feedback_connect"} /\ ret = APN_SUCCESS)
    => (sock # -1 /\ ssl.present /\ ssl.handshake)

\* a step of a send call: its entry, or a step of its loop or of the engine
C28_InSend ==
    \/ pc \in {"invoke", "reconnect", "token", "final", "returned"}
    \/ (Idle /\ last'.op = "apn_send")

\* C28 (a step of a send call): a step of the engine leaves the socket and
\* the TLS session alone; so does every step of a send call while the
\* reconnect option is off; with the option on, a step that changes either
\* is the close followed by the connect at the top of the loop.
C28_Step ==
    (C28_InSend /\ <<sock, ssl>>' # <<sock, ssl>>)
    => /\ pc \notin {"token", "final"}
       /\ ReconnectOn
       /\ pc = "reconnect"
       /\ auto_reconnect = 1
       /\ \E r \in {APN_SUCCESS, APN_ERROR} :
             hist' = hist \o <<CloseEv, ConnectEv(r)>>

\* C28: the send engine never mutates the socket or the TLS session; a send
\* with the reconnect option disabled leaves both unchanged; with the option
\* enabled they change only through the close and connect pair of the loop.
C28_SendKeepsConnection == [][C28_Step]_vars

\* a send with the reconnect option off wrote both tokens, failed on the read
\* at the final wait and still holds the socket and the session it was
\* entered with
C28_Witness ==
    /\ pc = "done"
    /\ last.op = "apn_send"
    /\ EntryConnected
    /\ ~ReconnectOn
    /\ tokens = <<"A", "B">>
    /\ lastErr.kind = "read"
    /\ ret = APN_ERROR
    /\ sock = SOCKET
    /\ ssl = [present |-> TRUE, fd |-> SOCKET, handshake |-> TRUE]

\* C29 (as claimed): with a callback configured, the handling of an error
\* frame with status 8 for token k has invoked the callback once, with
\* tokens[k] and k, and the handling of any other failure has not invoked
\* it.
C29_AsClaimed ==
    (Handled /\ invalid_token_callback /\ EntryConnected)
    => IF \E k \in 0 .. Len(tokens) - 1 : ErrorFrame(APN_APNS_ERR_INVALID_TOKEN, k)
       THEN cbCall = [called |-> TRUE, token |-> tokens[lastErr.id + 1],
                      index |-> lastErr.id]
       ELSE ~ErrorFrame(APN_APNS_ERR_INVALID_TOKEN, lastErr.id) => ~cbCall.called

\* C30 (as claimed): every engine invocation of a send call entered on a
\* connected context, the first one and each one after a transport failure
\* or an error frame, has a start index below the token count, so the
\* assertion at the top of the engine never fails.
C30_AsClaimed ==
    [][(apn_send_invoke /\ EntryConnected
          /\ (lastErr.kind = "frame" => lastErr.cmd = APNS_ERROR_CMD))
       => (U32Less(start_index, apn_array_count(tokens)) /\ pc' # "aborted")]_vars

\* C31 (as claimed): when the engine has returned a token-error status
\* (5 or 8) from an error frame, the index apn_send is about to look up is
\* below the token count and below i, the first token not yet written in
\* this run.
C31_AsClaimed ==
    (/\ pc = "returned"
     /\ EntryConnected
     /\ lastErr.kind = "frame"
     /\ lastErr.cmd = APNS_ERROR_CMD
     /\ IsTokenInvalid(__apn_convert_apple_error(apple_error_code)))
    => /\ U32Less(invalid_token_index, apn_array_count(tokens))
       /\ U32Less(invalid_token_index, i)

\* C32 (as claimed): within one send call entered on a connected context,
\* the start index the loop hands to the next engine invocation is above the
\* one of the invocation that just failed, and the engine is invoked at most
\* N times for N tokens.
C32_AsClaimed ==
    /\ [][(/\ pc = "returned"
           /\ pc' \in {"invoke", "reconnect"}
           /\ EntryConnected
           /\ (lastErr.kind = "frame" => lastErr.cmd = APNS_ERROR_CMD))
          => U32Less(start_index, start_index')]_vars
    /\ []((pc \in {"token", "final", "returned"} /\ EntryConnected)
            => runs <= apn_array_count(tokens))
====
